---- MODULE Spec2Model ----
(***************************************************************************)
(* One trial of the Oh Hey BooRay engine (OhHeyBooray.play_game) as a      *)
(* state machine.  A card is a pair <<rank, suit>>; hands are sequences    *)
(* (Python lists), the shuffled redraw pool is kept as the set of cards it *)
(* still holds, a pop() of the shuffled list being an arbitrary member.    *)
(***************************************************************************)
EXTENDS Integers, Sequences, FiniteSets, TLC

\* Number of cards of SampleOrder the shuffles may bring into play (the
\* dealt six and the replacement cards are drawn among them).
MaxCards == 9

Suits == {"H", "D", "C", "S"}

Ranks == 2..14

\* self.deck: the 52-card universe.
deck == {<<r, s>> : r \in Ranks, s \in Suits}

\* Order in which cards enter the bounded sample of shuffle outcomes.
SampleOrder ==
    << <<8, "H">>, <<11, "H">>, <<12, "H">>, <<13, "H">>, <<14, "H">>,
       <<8, "D">>, <<9, "D">>, <<9, "C">>, <<10, "D">>, <<8, "C">>,
       <<10, "H">>, <<14, "S">> >>

Sample ==
    {SampleOrder[k] : k \in 1..(IF MaxCards < Len(SampleOrder) THEN MaxCards ELSE Len(SampleOrder))}

VARIABLES
    pc,             \* position in play_game
    player_hand,    \* list, mutated by the exchange and by trick play
    dealer_hand,    \* list of the dealer's three cards, in dealt order
    trump_suit,
    initial_hand,
    og3,            \* <<og3_type, og3_payout>>
    draw,           \* the local should_draw
    cards_to_draw,  \* list of cards flagged for exchange
    drawn,          \* number of iterations of the exchange loop done
    remaining_deck, \* cards still in the shuffled redraw pool
    i,              \* number of tricks played
    tricks_won,
    used_trump,     \* list of the trump cards played
    played,         \* play_card of each trick so far
    won,            \* evaluate_trick's result of each trick so far
    result          \* <<>> or <<GameResult>>

vars == <<pc, player_hand, dealer_hand, trump_suit, initial_hand, og3, draw,
          cards_to_draw, drawn, remaining_deck, i, tricks_won, used_trump,
          played, won, result>>

----------------------------------------------------------------------------
\* Python helpers

Range(s) == {s[k] : k \in DOMAIN s}

RECURSIVE Insert(_, _)
Insert(x, s) ==
    IF s = <<>> THEN <<x>>
    ELSE IF x <= Head(s) THEN <<x>> \o s
    ELSE <<Head(s)>> \o Insert(x, Tail(s))

\* sorted(list of ints)
RECURSIVE Sorted(_)
Sorted(s) == IF s = <<>> THEN <<>> ELSE Insert(Head(s), Sorted(Tail(s)))

RankList(hand) == [k \in DOMAIN hand |-> hand[k][1]]

SuitList(hand) == [k \in DOMAIN hand |-> hand[k][2]]

\* list.remove(card): drops the first element equal to card
RECURSIVE Remove(_, _)
Remove(s, c) ==
    IF s = <<>> THEN <<>>
    ELSE IF Head(s) = c THEN Tail(s)
    ELSE <<Head(s)>> \o Remove(Tail(s), c)

\* [card for card in hand if card[1] == suit]
OfSuit(hand, suit) == SelectSeq(hand, LAMBDA c : c[2] = suit)

\* max(playable, key=lambda x: x[0]): the first card of maximal rank
MaxByRank(s) ==
    LET best == CHOOSE k \in DOMAIN s :
                    /\ \A j \in DOMAIN s : s[j][1] <= s[k][1]
                    /\ \A j \in 1..(k - 1) : s[j][1] < s[k][1]
    IN s[best]

----------------------------------------------------------------------------
\* evaluate_og3

evaluate_og3(hand) ==
    LET ranks == Sorted(RankList(hand))
        suits == Range(SuitList(hand))
    IN  IF Cardinality(suits) = 1 /\ ranks = <<12, 13, 14>> THEN <<"Mini Royal", 50>>
        ELSE IF Cardinality(suits) = 1 /\ ranks[3] - ranks[1] = 2 THEN <<"Straight Flush", 40>>
        ELSE IF Cardinality(Range(ranks)) = 1 THEN <<"Trips", 30>>
        ELSE IF ranks[3] - ranks[1] = 2 THEN <<"Straight", 6>>
        ELSE IF Cardinality(suits) = 1 THEN <<"Flush", 3>>
        ELSE IF Cardinality(Range(ranks)) = 2 THEN <<"Pair", 1>>
        ELSE <<"Loss", 0 - 1>>

----------------------------------------------------------------------------
\* should_draw: <<flag, low_cards>>

should_draw_le10(hand, trump) ==
    LET trump_cards == OfSuit(hand, trump)
        non_trump == SelectSeq(hand, LAMBDA c : c[2] # trump)
        low_cards == SelectSeq(non_trump, LAMBDA c : c[1] <= 10)
    IN  IF Len(trump_cards) >= 2 THEN <<FALSE, <<>> >>
        ELSE <<Len(low_cards) > 0, low_cards>>

should_draw(hand, trump) ==
    LET trump_cards == OfSuit(hand, trump)
        non_trump == SelectSeq(hand, LAMBDA c : c[2] # trump)
        low_cards == SelectSeq(non_trump, LAMBDA c : c[1] < 10)
    IN  IF Len(trump_cards) >= 2 THEN <<FALSE, <<>> >>
        ELSE <<Len(low_cards) > 0, low_cards>>

----------------------------------------------------------------------------
\* evaluate_trick

evaluate_trick_rank_only(player_card, dealer_card, trump) ==
    player_card[1] > dealer_card[1]

evaluate_trick_no_trump(player_card, dealer_card, trump) ==
    IF player_card[2] = dealer_card[2] THEN player_card[1] > dealer_card[1]
    ELSE FALSE

evaluate_trick(player_card, dealer_card, trump) ==
    IF player_card[2] = dealer_card[2] THEN player_card[1] > dealer_card[1]
    ELSE IF player_card[2] = trump THEN TRUE
    ELSE IF dealer_card[2] = trump THEN FALSE
    ELSE FALSE

----------------------------------------------------------------------------
\* Pieces of play_game

\* [card for card in self.deck if card not in player_hand + dealer_hand]
RemainingDeck_player_only(ph, dh) == deck \ Range(ph)

RemainingDeck(ph, dh) == deck \ Range(ph \o dh)

\* remaining_deck.pop(): what is left of the pool once card was popped
Pop_peek(pool, card) == pool

Pop(pool, card) == pool \ {card}

\* player_hand.remove(card); player_hand.append(new)
Exchanged_no_remove(hand, card, new) == Append(hand, new)

Exchanged(hand, card, new) == Append(Remove(hand, card), new)

\* the playable subset of one trick
Playable_no_trump_fallback(hand, dealer_card, trump) ==
    IF OfSuit(hand, dealer_card[2]) # <<>> THEN OfSuit(hand, dealer_card[2])
    ELSE hand

Playable(hand, dealer_card, trump) ==
    IF OfSuit(hand, dealer_card[2]) # <<>> THEN OfSuit(hand, dealer_card[2])
    ELSE IF OfSuit(hand, trump) # <<>> THEN OfSuit(hand, trump)
    ELSE hand

\* if play_card[1] == trump_suit: used_trump.append(play_card)
UsedTrumpAfter_always(ut, play_card, trump) == Append(ut, play_card)

UsedTrumpAfter(ut, play_card, trump) ==
    IF play_card[2] = trump THEN Append(ut, play_card) ELSE ut

AnteResult(tw) == IF tw >= 1 THEN 1 ELSE 0 - 1

PlayResult(tw) ==
    IF tw = 3 THEN 2
    ELSE IF tw >= 2 THEN 1
    ELSE IF tw >= 1 THEN 0
    ELSE 0 - 1

BoorayResult_unsorted(tw, ut) ==
    IF tw = 3 THEN
        IF RankList(ut) = <<12, 13, 14>> /\ Cardinality(Range(SuitList(ut))) = 1 THEN 500
        ELSE IF Len(ut) = 3 THEN 10
        ELSE 1
    ELSE IF tw >= 1 THEN 0
    ELSE 0 - 1

BoorayResult(tw, ut) ==
    IF tw = 3 THEN
        IF Sorted(RankList(ut)) = <<12, 13, 14>> /\ Cardinality(Range(SuitList(ut))) = 1 THEN 500
        ELSE IF Len(ut) = 3 THEN 10
        ELSE 1
    ELSE IF tw >= 1 THEN 0
    ELSE 0 - 1

UsedAllTrump(ut) == Len(ut) = 3

UsedAkqTrump(ut) ==
    IF Len(ut) = 3 THEN Sorted(RankList(ut)) = <<12, 13, 14>> ELSE FALSE

GameResult(tw, ut, ih, fh, o, ante, booray, play) ==
    [tricks_won |-> tw,
     used_all_trump |-> UsedAllTrump(ut),
     used_akq_trump |-> UsedAkqTrump(ut),
     initial_hand |-> ih,
     final_hand |-> fh,
     og3_type |-> o[1],
     og3_payout |-> o[2],
     ante_result |-> ante,
     booray_result |-> booray,
     play_result |-> play]

----------------------------------------------------------------------------
\* The trial

Init ==
    /\ pc = "start"
    /\ player_hand = <<>>
    /\ dealer_hand = <<>>
    /\ trump_suit = "none"
    /\ initial_hand = <<>>
    /\ og3 = <<>>
    /\ draw = FALSE
    /\ cards_to_draw = <<>>
    /\ drawn = 0
    /\ remaining_deck = {}
    /\ i = 0
    /\ tricks_won = 0
    /\ used_trump = <<>>
    /\ played = <<>>
    /\ won = <<>>
    /\ result = <<>>

\* deal_cards: the first six cards of a shuffled copy of the deck
deal_cards ==
    {d \in [1..6 -> Sample] : \A a, b \in 1..6 : a # b => d[a] # d[b]}

\* play_game up to the exchange loop: deal, trump suit, OG3, draw decision and,
\* when a draw is due, the shuffled pool of the cards not dealt.
Deal ==
    /\ pc = "start"
    /\ \E d \in deal_cards :
         LET ph == SubSeq(d, 1, 3)
             dh == SubSeq(d, 4, 6)
             sd == should_draw(ph, dh[3][2])
         IN  /\ player_hand' = ph
             /\ dealer_hand' = dh
             /\ trump_suit' = dh[3][2]
             /\ initial_hand' = ph
             /\ og3' = evaluate_og3(ph)
             /\ draw' = sd[1]
             /\ cards_to_draw' = sd[2]
             /\ remaining_deck' = IF sd[1] THEN RemainingDeck(ph, dh) ELSE {}
             /\ pc' = IF sd[1] THEN "exchange" ELSE "tricks"
    /\ UNCHANGED <<drawn, i, tricks_won, used_trump, played, won, result>>

\* one iteration of `for card in cards_to_draw`
Exchange ==
    /\ pc = "exchange"
    /\ drawn < Len(cards_to_draw)
    /\ \E new \in remaining_deck \cap Sample :
         /\ player_hand' = Exchanged(player_hand, cards_to_draw[drawn + 1], new)
         /\ remaining_deck' = Pop(remaining_deck, new)
    /\ drawn' = drawn + 1
    /\ pc' = IF drawn + 1 = Len(cards_to_draw) THEN "tricks" ELSE "exchange"
    /\ UNCHANGED <<dealer_hand, trump_suit, initial_hand, og3, draw,
                   cards_to_draw, i, tricks_won, used_trump, played, won, result>>

\* one iteration of `for i, dealer_card in enumerate(dealer_hand)`
Trick ==
    /\ pc = "tricks"
    /\ i < Len(dealer_hand)
    /\ LET dealer_card == dealer_hand[i + 1]
           play_card == MaxByRank(Playable(player_hand, dealer_card, trump_suit))
           w == evaluate_trick(play_card, dealer_card, trump_suit)
       IN  /\ player_hand' = Remove(player_hand, play_card)
           /\ used_trump' = UsedTrumpAfter(used_trump, play_card, trump_suit)
           /\ tricks_won' = IF w THEN tricks_won + 1 ELSE tricks_won
           /\ played' = Append(played, play_card)
           /\ won' = Append(won, w)
    /\ i' = i + 1
    /\ pc' = IF i + 1 = Len(dealer_hand) THEN "payout" ELSE "tricks"
    /\ UNCHANGED <<dealer_hand, trump_suit, initial_hand, og3, draw,
                   cards_to_draw, drawn, remaining_deck, result>>

\* "Calculate results" and the GameResult returned
Payout ==
    /\ pc = "payout"
    /\ result' = <<GameResult(tricks_won, used_trump, initial_hand, player_hand, og3,
                              AnteResult(tricks_won),
                              BoorayResult(tricks_won, used_trump),
                              PlayResult(tricks_won))>>
    /\ pc' = "done"
    /\ UNCHANGED <<player_hand, dealer_hand, trump_suit, initial_hand, og3, draw,
                   cards_to_draw, drawn, remaining_deck, i, tricks_won,
                   used_trump, played, won>>

Next == Deal \/ Exchange \/ Trick \/ Payout

Spec == Init /\ [][Next]_vars

----------------------------------------------------------------------------
\* Vocabulary of the properties

Done == pc = "done"

Dealt == pc # "start"

NoDup(s) == Cardinality(Range(s)) = Len(s)

TrumpCount(hand) == Cardinality({k \in DOMAIN hand : hand[k][2] = trump_suit})

PlayedAllTrump == \A k \in DOMAIN played : played[k][2] = trump_suit

PlayedRanks == {played[k][1] : k \in DOMAIN played}

\* the player wins trick k by the rule of the rules text
WinsByRule(k) ==
    \/ played[k][2] = dealer_hand[k][2] /\ played[k][1] > dealer_hand[k][1]
    \/ played[k][2] # dealer_hand[k][2] /\ played[k][2] = trump_suit

\* the low cards of the initial hand: not trump, rank below 10
LowCards == {c \in Range(initial_hand) : c[2] # trump_suit /\ c[1] < 10}

\* the six cards of the deal
SixDealt == Range(initial_hand) \cup Range(dealer_hand)

\* the replacement cards the player received
Replacements == (Range(player_hand) \cup Range(played)) \ Range(initial_hand)

\* the OG3 table with a run being three consecutive ranks
Og3ByRun(hand) ==
    LET r == Sorted(RankList(hand))
        flush == Cardinality(Range(SuitList(hand))) = 1
        run == r[3] - r[2] = 1 /\ r[2] - r[1] = 1
    IN  IF flush /\ r = <<12, 13, 14>> THEN <<"Mini Royal", 50>>
        ELSE IF flush /\ run THEN <<"Straight Flush", 40>>
        ELSE IF r[1] = r[3] THEN <<"Trips", 30>>
        ELSE IF run THEN <<"Straight", 6>>
        ELSE IF flush THEN <<"Flush", 3>>
        ELSE IF Cardinality(Range(r)) = 2 THEN <<"Pair", 1>>
        ELSE <<"Loss", 0 - 1>>

----------------------------------------------------------------------------
\* C1: in every GameResult the ante, booray and play payouts are the table's
\* function of tricks_won and of the trump cards played: 0 tricks -1/-1/-1,
\* 1 trick 1/0/0, 2 tricks 1/0/1, 3 tricks ante 1, play 2 and booray 500 when
\* the three played cards are the Q, K, A of trump, 10 when all three are trump
\* otherwise, 1 when fewer than three are trump.
C1_PayoutTable ==
    Done =>
        LET r == result[1]
            pay == <<r.ante_result, r.booray_result, r.play_result>>
        IN  /\ r.tricks_won \in 0..3
            /\ r.tricks_won = 0 => pay = <<0 - 1, 0 - 1, 0 - 1>>
            /\ r.tricks_won = 1 => pay = <<1, 0, 0>>
            /\ r.tricks_won = 2 => pay = <<1, 0, 1>>
            /\ r.tricks_won = 3 =>
                 pay = <<1,
                         IF PlayedAllTrump /\ PlayedRanks = {12, 13, 14} THEN 500
                         ELSE IF PlayedAllTrump THEN 10
                         ELSE 1,
                         2>>

\* a trial won 3-0 with the Q, K, A of trump
C1_Witness ==
    /\ Done
    /\ result[1].tricks_won = 3
    /\ PlayedAllTrump /\ PlayedRanks = {12, 13, 14}

\* C2: evaluate_og3 returns the first matching rule of Mini Royal, Straight
\* Flush, Trips, Straight, Flush, Pair, Loss, a run being three consecutive
\* ranks; a non-flush hand with exactly two distinct ranks is a Pair.
C2_Og3FirstMatchByRun ==
    Dealt => og3 = Og3ByRun(initial_hand)

\* C3 as stated: after a trial tricks_won is in 0..3 and used_trump has exactly
\* three entries, one per trick.
C3_UsedTrumpHasThree ==
    Done => tricks_won \in 0..3 /\ Len(used_trump) = 3

\* C3 amended: after a trial tricks_won is in 0..3, three cards were played, and
\* used_trump holds exactly the played cards that are trump, in play order: at
\* most three entries, one per trick in which the player played a trump card.
C3_UsedTrumpIsTrumpPlayed ==
    Done =>
        /\ result[1].tricks_won \in 0..3
        /\ Len(played) = 3
        /\ Len(used_trump) <= 3
        /\ used_trump = SelectSeq(played, LAMBDA c : c[2] = trump_suit)

\* a trial in which only one of the three played cards was trump
C3_Witness ==
    Done /\ Len(used_trump) = 1 /\ Len(played) = 3

\* C4: every trick is scored as won exactly when the player's card has the
\* dealer card's suit and a higher rank, or another suit and is trump; a
\* non-trump card of another suit loses; tricks_won counts the tricks so scored.
C4_TrickWinnerRule ==
    /\ Len(won) = Len(played)
    /\ \A k \in DOMAIN won :
         /\ won[k] = WinsByRule(k)
         /\ (played[k][2] # dealer_hand[k][2] /\ played[k][2] # trump_suit) => ~won[k]
    /\ tricks_won = Cardinality({k \in DOMAIN won : won[k]})
    /\ Done => result[1].tricks_won = Cardinality({k \in DOMAIN won : WinsByRule(k)})

\* a trial with a trick won by trumping a higher card and a trick lost with a
\* higher non-trump card of another suit
C4_Witness ==
    /\ Done
    /\ \E k \in 1..3 :
         /\ won[k] /\ played[k][2] # dealer_hand[k][2]
         /\ played[k][1] < dealer_hand[k][1]
    /\ \E k \in 1..3 :
         /\ ~won[k] /\ played[k][2] # dealer_hand[k][2]
         /\ played[k][1] > dealer_hand[k][1]

\* C5 as stated: the number of cards exchanged is the number flagged and is 0,
\* 1 or 2, never 3.
C5_ExchangeAtMostTwo ==
    pc \in {"tricks", "payout", "done"} =>
        drawn = Len(cards_to_draw) /\ drawn \in 0..2

\* C5 amended: the number of cards exchanged is the number of low cards flagged
\* by should_draw and is 0, 1, 2 or 3; when an exchange takes place the pool of
\* 46 shrinks by exactly one card per exchanged card and is never empty when a
\* card is due.
C5_ExchangeCount ==
    /\ Dealt /\ draw =>
         drawn <= Len(cards_to_draw) /\ Len(cards_to_draw) = Cardinality(LowCards)
    /\ Dealt /\ ~draw => drawn = 0 /\ cards_to_draw = <<>>
    /\ pc \in {"tricks", "payout", "done"} =>
         /\ drawn = Len(cards_to_draw)
         /\ drawn \in 0..3
    /\ pc = "tricks" /\ i = 0 =>
         Cardinality(Range(initial_hand) \ Range(player_hand)) = drawn
    /\ draw => Cardinality(remaining_deck) = 46 - drawn
    /\ pc = "exchange" => drawn < Len(cards_to_draw) /\ remaining_deck # {}

\* all three cards of the hand were exchanged
C5_Witness ==
    pc = "tricks" /\ drawn = 3 /\ Cardinality(remaining_deck) = 43

\* C6: should_draw answers no draw and no cards for a hand with two or more
\* trump cards; otherwise it flags exactly the non-trump cards of rank below 10
\* and says draw exactly when there is one. No trump card and no card of rank
\* 10 or more is exchanged.
C6_ShouldDrawPolicy ==
    Dealt =>
        LET ntrump == TrumpCount(initial_hand)
            low == SelectSeq(initial_hand, LAMBDA c : c[2] # trump_suit /\ c[1] < 10)
        IN  /\ ntrump >= 2 => ~draw /\ cards_to_draw = <<>>
            /\ ntrump < 2 => cards_to_draw = low /\ draw = (low # <<>>)
            /\ \A k \in 1..drawn :
                 cards_to_draw[k][2] # trump_suit /\ cards_to_draw[k][1] < 10
            /\ pc = "tricks" /\ i = 0 =>
                 \A k \in 1..3 :
                     (initial_hand[k][2] = trump_suit \/ initial_hand[k][1] >= 10)
                         => \E j \in 1..3 : player_hand[j] = initial_hand[k]

\* a hand with no trump, two cards below 10 flagged and a ten kept
C6_Witness ==
    /\ pc = "tricks" /\ i = 0
    /\ TrumpCount(initial_hand) = 0
    /\ Len(cards_to_draw) = 2
    /\ \E c \in Range(initial_hand) : c[1] = 10 /\ c \in Range(player_hand)

\* C7: no card appears twice among the player's hand, the dealer's hand, the
\* cards played and the redraw pool; the pool starts as the 46 cards of the
\* deck that were not dealt; a replacement card is none of the six dealt cards
\* and is not drawn twice.
C7_NoCardTwice ==
    Dealt =>
        LET inplay == player_hand \o dealer_hand \o played
        IN  /\ NoDup(inplay)
            /\ \A k \in DOMAIN inplay : inplay[k] \in deck /\ inplay[k] \notin remaining_deck
            /\ Cardinality(deck) = 52
            /\ \A k \in DOMAIN dealer_hand : dealer_hand[k] \notin Replacements
            /\ Cardinality(Replacements) = drawn
            /\ pc = "exchange" /\ drawn = 0 =>
                 remaining_deck = deck \ SixDealt /\ Cardinality(remaining_deck) = 46
            /\ pc = "exchange" \/ (pc = "tricks" /\ i = 0 /\ draw) =>
                 remaining_deck = deck \ (SixDealt \cup Replacements)

\* a finished trial in which two replacement cards were drawn
C7_Witness ==
    Done /\ drawn = 2 /\ Cardinality(Replacements) = 2

\* C8: the trial ends after exactly three tricks: the player holds three cards
\* during the exchange and when trick play begins, 3 - i cards before trick
\* i + 1, each trick takes one card away, and after the third trick the hand,
\* which is the final_hand of the GameResult produced, is empty; until the
\* GameResult is produced the next step of play_game can always be taken (the
\* loops have an iteration left, remove finds its card, pop and max have a
\* non-empty argument).
C8_ThreeTricksThenResult ==
    /\ pc = "exchange" => Len(player_hand) = 3
    /\ pc = "tricks" => i < 3 /\ Len(player_hand) = 3 - i
    /\ Dealt => Len(player_hand) <= 3 /\ Len(player_hand) + Len(played) = 3
    /\ pc = "payout" => i = 3 /\ player_hand = <<>>
    /\ Done =>
         /\ i = 3 /\ Len(played) = 3
         /\ Len(result) = 1
         /\ result[1].final_hand = <<>>
    /\ ~Done => result = <<>>
    /\ pc \in {"start", "exchange", "tricks", "payout", "done"}
    /\ pc = "exchange" =>
         /\ drawn < Len(cards_to_draw)
         /\ cards_to_draw[drawn + 1] \in Range(player_hand)
         /\ remaining_deck # {}
    /\ pc = "tricks" => i < Len(dealer_hand) /\ player_hand # <<>>

\* a trial with an exchange that reached its GameResult
C8_Witness ==
    Done /\ draw /\ drawn > 0 /\ Len(result) = 1

\* C9: in every trick the played card is of the dealer card's suit and the
\* highest of that suit in hand when the hand has that suit; otherwise the
\* highest trump in hand when the hand has trump; otherwise a card of the
\* highest rank in hand. It is a card of the hand and leaves the hand.
C9_FallbackChain ==
    [][pc = "tricks" =>
        LET d == dealer_hand[i + 1]
            p == played'[Len(played')]
            hand == Range(player_hand)
            led == {c \in hand : c[2] = d[2]}
            trumps == {c \in hand : c[2] = trump_suit}
            playable == IF led # {} THEN led ELSE IF trumps # {} THEN trumps ELSE hand
        IN  /\ Len(played') = Len(played) + 1
            /\ p \in playable
            /\ \A c \in playable : c[1] <= p[1]
            /\ p \in hand
            /\ Range(player_hand') = hand \ {p}
            /\ Len(player_hand') = Len(player_hand) - 1]_vars

\* a trial whose three tricks took the three branches: following suit, trumping,
\* and discarding from a hand with neither
C9_Witness ==
    /\ Done
    /\ \E k \in 1..3 : played[k][2] = dealer_hand[k][2]
    /\ \E k \in 1..3 : played[k][2] # dealer_hand[k][2] /\ played[k][2] = trump_suit
    /\ \E k \in 1..3 : played[k][2] # dealer_hand[k][2] /\ played[k][2] # trump_suit

\* C10: in every GameResult used_akq_trump is true exactly when booray_result
\* is 500, and booray_result = 10 implies used_all_trump and not used_akq_trump.
C10_AkqIffBooray500 ==
    Done =>
        LET r == result[1]
        IN  /\ r.used_akq_trump <=> r.booray_result = 500
            /\ r.booray_result = 10 => r.used_all_trump /\ ~r.used_akq_trump

\* a trial in which the player played the Q, K, A of trump against a dealer
\* who led two cards of other suits
C10_Witness ==
    /\ Done
    /\ result[1].used_akq_trump
    /\ dealer_hand[1][2] # trump_suit /\ dealer_hand[2][2] # trump_suit

====
